---- MODULE Spec2Model ----
(***************************************************************************)
(* Model of ipie/walkers/uhf_walkers.py: the UHF walker batch, its         *)
(* construction from a trial wavefunction, and its reorthonormalisation    *)
(* in per-walker mode (reortho) and batched mode (reortho_batched).        *)
(*                                                                         *)
(* Numbers.  Orbital matrices are real integer matrices, stored as a       *)
(* sequence of columns.  Logarithms are kept in units of ln 2, so the log  *)
(* of a power of two is an integer; exp of such a number is an exact       *)
(* rational <<numerator, denominator>>.  The inputs are restricted to      *)
(* matrices whose QR factors are exact in this arithmetic (see Exact).     *)
(***************************************************************************)
EXTENDS Integers, Sequences, FiniteSets, TLC

\* ------------------------------------------------------------ bounds
NumWalkers == 2
MaxCalls == 2
MaxProps == 1
MaxExp == 1

\* ------------------------------------------------------ exact numbers
Abs(x) == IF x < 0 THEN -x ELSE x

\* numpy.sign on a real number
Sign(x) == IF x > 0 THEN 1 ELSE IF x < 0 THEN -1 ELSE 0

RECURSIVE Pow2(_)
Pow2(e) == IF e <= 0 THEN 1 ELSE 2 * Pow2(e - 1)

\* log of a positive integer power of two, in units of ln 2
RECURSIVE Log2(_)
Log2(m) == IF m <= 1 THEN 0 ELSE 1 + Log2(m \div 2)

IsPow2(m) == m >= 1 /\ Pow2(Log2(m)) = m

RECURSIVE GCD(_, _)
GCD(a, b) == IF b = 0 THEN a ELSE GCD(b, a % b)

\* a rational in lowest terms with a positive denominator
Rat(n, d) ==
    LET s == IF d < 0 THEN -1 ELSE 1
        g == GCD(Abs(n), Abs(d))
    IN  <<(s * n) \div g, (s * d) \div g>>

One == <<1, 1>>

RatDiv(a, b) == Rat(a[1] * b[2], a[2] * b[1])

\* xp.exp of a log-domain number (units of ln 2)
Exp(x) == IF x >= 0 THEN <<Pow2(x), 1>> ELSE <<1, Pow2(-x)>>

\* xp.log of a positive rational whose numerator and denominator are powers of two
Log(q) == Log2(q[1]) - Log2(q[2])

\* -------------------------------------------------------- linear algebra
\* a matrix is the sequence of its columns, a column a sequence of integers
RECURSIVE Dot(_, _)
Dot(u, v) ==
    IF u = <<>> THEN 0 ELSE Head(u) * Head(v) + Dot(Tail(u), Tail(v))

RECURSIVE ScaleVec(_, _)
ScaleVec(c, v) ==
    IF v = <<>> THEN <<>> ELSE <<c * Head(v)>> \o ScaleVec(c, Tail(v))

RECURSIVE AddVec(_, _)
AddVec(u, v) ==
    IF u = <<>> THEN <<>>
    ELSE <<Head(u) + Head(v)>> \o AddVec(Tail(u), Tail(v))

\* v / r, entry by entry
RECURSIVE DivVec(_, _)
DivVec(v, r) ==
    IF v = <<>> THEN <<>> ELSE <<Head(v) \div r>> \o DivVec(Tail(v), r)

\* integer square root (exact on perfect squares)
ISqrt(n) == CHOOSE r \in 0..n : r * r <= n /\ (r + 1) * (r + 1) > n

\* v minus the projections of a on the columns of Q
RECURSIVE Residual(_, _, _)
Residual(v, a, Q) ==
    IF Q = <<>> THEN v
    ELSE Residual(AddVec(v, ScaleVec(-Dot(Head(Q), a), Head(Q))), a, Tail(Q))

\* the number of rows of a matrix with at least one column
Rows(M) == IF M = <<>> THEN 0 ELSE Len(M[1])

\* the unit vector e_k of length m, built from position i on
RECURSIVE UnitFrom(_, _, _)
UnitFrom(m, k, i) ==
    IF i > m THEN <<>>
    ELSE <<IF i = k THEN 1 ELSE 0>> \o UnitFrom(m, k, i + 1)

Unit(m, k) == UnitFrom(m, k, 1)

\* v with its first n entries set to zero
RECURSIVE ZeroAbove(_, _)
ZeroAbove(v, n) ==
    IF n = 0 \/ v = <<>> THEN v ELSE <<0>> \o ZeroAbove(Tail(v), n - 1)

\* Fortran's SIGN(1, a)
SignP(a) == IF a >= 0 THEN 1 ELSE -1

\* The Householder vector v of LAPACK's xLARFG for the part x of column k on
\* and below the diagonal: H = I - 2 v v^T / (v^T v) maps x to beta e_k with
\* beta = -SIGN(|x|, x[k]); when x is zero below the diagonal H is the
\* identity (v = 0) and the diagonal entry keeps its value.
Reflector(x, k) ==
    IF \A i \in (k + 1)..Len(x) : x[i] = 0
    THEN ScaleVec(0, x)
    ELSE AddVec(x, ScaleVec(SignP(x[k]) * ISqrt(Dot(x, x)), Unit(Len(x), k)))

\* H y for the reflector v
Reflect(v, y) ==
    IF Dot(v, v) = 0 THEN y
    ELSE AddVec(y, DivVec(ScaleVec(-2 * Dot(v, y), v), Dot(v, v)))

RECURSIVE ReflectAll(_, _)
ReflectAll(v, B) ==
    IF B = <<>> THEN <<>>
    ELSE <<Reflect(v, Head(B))>> \o ReflectAll(v, Tail(B))

\* xGEQRF: reduce the columns k, k+1, ... of B; vs collects the reflectors
RECURSIVE Householder(_, _, _)
WithReflector(B, k, vs, v) ==
    Householder(ReflectAll(v, B), k + 1, Append(vs, v))

Householder(B, k, vs) ==
    IF k > Len(B) THEN [R |-> B, vs |-> vs]
    ELSE WithReflector(B, k, vs, Reflector(ZeroAbove(B[k], k - 1), k))

\* H_1 H_2 ... H_n y
RECURSIVE ApplyReflectors(_, _)
ApplyReflectors(vs, y) ==
    IF vs = <<>> THEN y
    ELSE Reflect(Head(vs), ApplyReflectors(Tail(vs), y))

\* the columns j..n of the thin Q
RECURSIVE QFrom(_, _, _, _)
QFrom(vs, m, j, n) ==
    IF j > n THEN <<>>
    ELSE <<ApplyReflectors(vs, Unit(m, j))>> \o QFrom(vs, m, j + 1, n)

\* xp.diag(R), from entry k on
RECURSIVE DiagFrom(_, _)
DiagFrom(R, k) ==
    IF k > Len(R) THEN <<>> ELSE <<R[k][k]>> \o DiagFrom(R, k + 1)

Factors(h, m) ==
    [Q |-> QFrom(h.vs, m, 1, Len(h.R)), Rdiag |-> DiagFrom(h.R, 1)]

\* qr(A, mode=qr_mode): the thin Q and the diagonal of R, as LAPACK's
\* Householder reduction produces them
qr(A) == Factors(Householder(A, 1, <<>>), Rows(A))

RECURSIVE MaxAbs(_)
MaxAbs(v) ==
    IF v = <<>> THEN 0
    ELSE LET m == MaxAbs(Tail(v))
         IN  IF Abs(Head(v)) > m THEN Abs(Head(v)) ELSE m

\* f is an exact decomposition of A: Q has orthonormal columns, Q^T A is
\* upper triangular with the diagonal Rdiag, and A = Q (Q^T A); moreover the
\* diagonal's magnitudes are powers of two, so that their logs are integers
ExactFactors(A, f) ==
    /\ Len(A) <= Rows(A)
    /\ \A j, k \in 1..Len(A) :
        /\ Dot(f.Q[j], f.Q[k]) = (IF j = k THEN 1 ELSE 0)
        /\ j > k => Dot(f.Q[j], A[k]) = 0
    /\ \A k \in 1..Len(A) :
        /\ f.Rdiag[k] = Dot(f.Q[k], A[k])
        /\ IsPow2(Abs(f.Rdiag[k]))
        /\ Abs(f.Rdiag[k]) <= Pow2(MaxExp)
        /\ MaxAbs(A[k]) <= Pow2(MaxExp)
        /\ MaxAbs(Residual(A[k], A[k], f.Q)) = 0

\* the matrices the exact arithmetic above covers
Exact(A) == ExactFactors(A, qr(A))

\* the matrix Q times xp.diag(v): column k of Q scaled by v[k]
RECURSIVE DotDiag(_, _)
DotDiag(Q, v) ==
    IF Q = <<>> THEN <<>>
    ELSE <<ScaleVec(Head(v), Head(Q))>> \o DotDiag(Tail(Q), Tail(v))

\* xp.sign, entry by entry
RECURSIVE SignVec(_)
SignVec(d) == IF d = <<>> THEN <<>> ELSE <<Sign(Head(d))>> \o SignVec(Tail(d))

\* sum_k log|d_k|
RECURSIVE SumLogAbs(_)
SumLogAbs(d) ==
    IF d = <<>> THEN 0 ELSE Log2(Abs(Head(d))) + SumLogAbs(Tail(d))

\* ------------------------------------------------------------- slicing
Min(a, b) == IF a < b THEN a ELSE b

\* initial_walker[:, :n]
ColsUpTo(M, n) == SubSeq(M, 1, Min(n, Len(M)))

\* initial_walker[:, n:]
ColsFrom(M, n) == SubSeq(M, Min(n, Len(M)) + 1, Len(M))

\* numpy.hstack([a, b])
HStack(a, b) == a \o b

\* ---------------------------------------------------------------- inputs
E1 == <<1, 0>>

\* alpha and beta orbital blocks a trial wavefunction may store
AlphaBlocks == {<<E1>>, <<<<2, 0>>, <<1, 1>>>>}

BetaBlocks == {<<>>, <<<<0, -2>>>>}

\* the per-walker shifts a caller may supply: zero, or a scale for walker 0
ShiftPolicies(nw) ==
    {[w \in 0..(nw - 1) |-> IF w = 0 THEN c ELSE 0] : c \in {0, 1}}

\* The trial classes.  A trial object carries its own class and the set of
\* classes it is an instance of (its class and that class's ancestors).
\* ipie/trial_wavefunction/particle_hole.py decides whether the non-chunked
\* and naive classes derive from ParticleHoleWicks; both forms are inputs.
TrialKinds ==
    { [cls |-> "SingleDet", mro |-> {"SingleDet"}],
      [cls |-> "ParticleHoleWicks", mro |-> {"ParticleHoleWicks"}],
      [cls |-> "ParticleHoleWicksNonChunked",
       mro |-> {"ParticleHoleWicksNonChunked"}],
      [cls |-> "ParticleHoleWicksNonChunked",
       mro |-> {"ParticleHoleWicksNonChunked", "ParticleHoleWicks"}],
      [cls |-> "ParticleHoleNaive", mro |-> {"ParticleHoleNaive"}],
      [cls |-> "ParticleHoleNaive",
       mro |-> {"ParticleHoleNaive", "ParticleHoleWicks"}],
      [cls |-> "NOCI", mro |-> {"NOCI"}] }

TrialOf(k, a, b) ==
    [cls |-> k.cls, mro |-> k.mro, psi0a |-> a, psi0b |-> b,
     psi |-> HStack(a, b),
     num_dets |-> IF k.cls = "SingleDet" THEN 1 ELSE 2,
     nact |-> 2, nocc_alpha |-> Len(a), nocc_beta |-> Len(b)]

\* single-determinant trials over every orbital block, the other kinds over
\* one pair of blocks
Trials ==
    { TrialOf(k, a, b) : k \in {x \in TrialKinds : x.cls = "SingleDet"},
                         a \in AlphaBlocks, b \in BetaBlocks } \cup
    { TrialOf(k, <<E1>>, <<<<0, -2>>>>) : k \in TrialKinds }

NoTrial ==
    [cls |-> "", mro |-> {}, psi0a |-> <<>>, psi0b |-> <<>>, psi |-> <<>>,
     num_dets |-> 0, nact |-> 0, nocc_alpha |-> 0, nocc_beta |-> 0]

\* an array handed to the constructor: its number of dimensions and, when it
\* is two-dimensional, its columns
Array2(M) == [ndim |-> 2, mat |-> M]

NoArray == [ndim |-> 0, mat |-> <<>>]

MalformedArrays == {[ndim |-> 1, mat |-> <<>>], [ndim |-> 3, mat |-> <<>>]}

isinstance(t, c) == c \in t.mro

\* ------------------------------------------------------ variant dispatch
\* get_initial_walker: the branch taken, as (ndets, initial_walker), or the
\* exception raised
get_initial_walker(t) ==
    IF isinstance(t, "SingleDet")
    THEN [raised |-> "", ndets |-> 1, initial_walker |-> Array2(t.psi)]
    ELSE IF isinstance(t, "ParticleHoleWicks")
    THEN [raised |-> "", ndets |-> t.num_dets,
          initial_walker |-> Array2(HStack(t.psi0a, t.psi0b))]
    ELSE IF isinstance(t, "ParticleHoleWicksNonChunked")
    THEN [raised |-> "", ndets |-> t.num_dets,
          initial_walker |-> Array2(HStack(t.psi0a, t.psi0b))]
    ELSE [raised |-> "Exception", ndets |-> 0, initial_walker |-> NoArray]

\* the dispatch table, keyed by the trial's own class
UHFWalkersTrial ==
    [c \in {"SingleDet", "ParticleHoleWicks", "ParticleHoleWicksNonChunked",
            "ParticleHoleNaive"} |->
        CASE c = "SingleDet" -> "UHFWalkers"
          [] c = "ParticleHoleWicks" -> "UHFWalkersParticleHole"
          [] c = "ParticleHoleWicksNonChunked" -> "UHFWalkersParticleHole"
          [] c = "ParticleHoleNaive" -> "UHFWalkersParticleHoleNaive"]

\* UHFWalkersTrial[type(trial)]: a dict lookup, KeyError on a missing key
TrialLookup(t) ==
    IF t.cls \in DOMAIN UHFWalkersTrial
    THEN [raised |-> "", cls |-> UHFWalkersTrial[t.cls]]
    ELSE [raised |-> "KeyError", cls |-> ""]

\* ------------------------------------------------------------------ state
VARIABLES
    pc,              \* where the driver is: start, dispatch, construct, build,
                     \* ready, loop (inside reortho's for loop), failed
    err,             \* the exception that reached the caller, "" if none
    use_gpu,         \* config.get_option('use_gpu')
    trial,           \* the trial wavefunction being dispatched on
    walker_cls,      \* the walker class selected for construction
    ndets,           \* ndets as returned by get_initial_walker
    initial_walker,  \* the array handed to the constructor
    nup, ndown, nbasis, nwalkers,
    phia, phib,      \* the orbital matrices, one per walker
    ovlp, detR, log_detR, detR_shift,
    buff_names,      \* the names registered for serialization
    buff_size,
    attrs,           \* the array attributes of the batch: name -> size
    iw,              \* reortho's loop index
    detR_list,       \* reortho's local list detR
    log_det,         \* the local log_det of the last call, per walker
    ret,             \* the value the last reortho call returned
    mode,            \* which mode the last reortho call ran in
    sum_log_det,     \* history: the log_det values of all calls, summed per walker
    ncalls, nprops   \* how many reortho calls and propagation steps were made

vars ==
    <<pc, err, use_gpu, trial, walker_cls, ndets, initial_walker, nup, ndown,
      nbasis, nwalkers, phia, phib, ovlp, detR, log_detR, detR_shift,
      buff_names, buff_size, attrs, iw, detR_list, log_det, ret, mode,
      sum_log_det, ncalls, nprops>>

input_vars == <<trial, walker_cls, ndets, initial_walker>>

shape_vars == <<nup, ndown, nbasis, nwalkers>>

orbital_vars == <<phia, phib>>

ledger_vars == <<ovlp, detR, log_detR, detR_shift>>

buffer_vars == <<buff_names, buff_size, attrs>>

call_vars == <<iw, detR_list, log_det, ret, mode, sum_log_det, ncalls>>

Walkers == 0..(nwalkers - 1)

Init ==
    /\ pc = "start"
    /\ err = ""
    /\ use_gpu \in BOOLEAN
    /\ trial = NoTrial
    /\ walker_cls = ""
    /\ ndets = 0
    /\ initial_walker = NoArray
    /\ nup = 0 /\ ndown = 0 /\ nbasis = 0 /\ nwalkers = 0
    /\ phia = <<>> /\ phib = <<>>
    /\ ovlp = <<>> /\ detR = <<>> /\ log_detR = <<>> /\ detR_shift = <<>>
    /\ buff_names = <<>> /\ buff_size = 0 /\ attrs = <<>>
    /\ iw = 0 /\ detR_list = <<>> /\ log_det = <<>> /\ ret = <<>>
    /\ mode = ""
    /\ sum_log_det = <<>>
    /\ ncalls = 0 /\ nprops = 0

\* ----------------------------------------------------- building a batch
\* the driver extracts the initial walker from the trial
GetInitialWalker ==
    /\ pc = "start"
    /\ \E t \in Trials :
        LET r == get_initial_walker(t)
        IN  /\ trial' = t
            /\ ndets' = r.ndets
            /\ initial_walker' = r.initial_walker
            /\ err' = r.raised
            /\ pc' = IF r.raised = "" THEN "dispatch" ELSE "failed"
    /\ UNCHANGED <<use_gpu, walker_cls, shape_vars, orbital_vars, ledger_vars,
                   buffer_vars, call_vars, nprops>>

\* the driver selects the walker class for the trial
Dispatch ==
    /\ pc = "dispatch"
    /\ LET r == TrialLookup(trial)
       IN  /\ walker_cls' = r.cls
           /\ err' = r.raised
           /\ pc' = IF r.raised = "" THEN "construct" ELSE "failed"
    /\ UNCHANGED <<use_gpu, trial, ndets, initial_walker, shape_vars,
                   orbital_vars, ledger_vars, buffer_vars, call_vars, nprops>>

\* a caller that builds a batch directly from an array of its own
DirectArray ==
    /\ pc = "start"
    /\ \E a \in MalformedArrays \cup {Array2(HStack(x, y)) :
                                        x \in AlphaBlocks, y \in BetaBlocks} :
        initial_walker' = a
    /\ walker_cls' = "UHFWalkers"
    /\ pc' = "construct"
    /\ UNCHANGED <<err, use_gpu, trial, ndets, shape_vars, orbital_vars,
                   ledger_vars, buffer_vars, call_vars, nprops>>

\* self.phia: one copy of initial_walker[:, :nup] per walker
InitPhia(M, nu, nw) == [w \in 0..(nw - 1) |-> ColsUpTo(M, nu)]

\* self.phib: one copy of initial_walker[:, nup:] per walker
InitPhib(M, nu, nw) == [w \in 0..(nw - 1) |-> ColsFrom(M, nu)]

\* the ledger arrays and the registered names BaseWalkers.__init__ leaves
BaseBuffNames == <<"ovlp", "detR", "detR_shift", "log_detR">>

BaseAttrs(nw) ==
    [n \in {"ovlp", "detR", "detR_shift", "log_detR"} |-> nw]

\* self.buff_names += ["phia, phib"]
RegisterBuffNames(names) == names \o <<"phia, phib">>

\* the arrays UHFWalkers.__init__ allocates, with their sizes
OrbitalAttrs(M, nu, nd, nb, nw) ==
    ("phia" :> nw * Rows(M) * Len(ColsUpTo(M, nu))) @@
    ("phib" :> nw * Rows(M) * Len(ColsFrom(M, nu))) @@
    ("Ga" :> nw * nb * nb) @@ ("Gb" :> nw * nb * nb) @@
    ("Ghalfa" :> nw * nu * nb) @@ ("Ghalfb" :> nw * nd * nb)

\* the arrays the subclasses' __init__ allocate on top
SubclassAttrs(cls, nu, nd, nb, nw, nd_trial) ==
    IF cls = "UHFWalkersParticleHole"
    THEN [n \in {"G0a", "G0b", "Q0a", "Q0b"} |-> nw * nb * nb]
    ELSE IF cls = "UHFWalkersParticleHoleNaive"
    THEN [n \in {"det_weights", "det_ovlpas", "det_ovlpbs"} |-> nw * nd_trial] @@
         [n \in {"Gia", "Gib"} |-> nw * nd_trial * nb * nb] @@
         ("Gihalfa" :> nw * nd_trial * nu * nb) @@
         ("Gihalfb" :> nw * nd_trial * nd * nb)
    ELSE <<>>

Range(f) == {f[x] : x \in DOMAIN f}

RECURSIVE SumSizes(_, _)
SumSizes(a, names) ==
    IF names = {} THEN 0
    ELSE LET n == CHOOSE x \in names : TRUE
         IN  a[n] + SumSizes(a, names \ {n})

\* BaseWalkers.set_buff_size_single_walker: the sizes of the array
\* attributes whose name is registered, summed
set_buff_size_single_walker(a, names) ==
    SumSizes(a, DOMAIN a \cap Range(names))

\* Python's round(total / float(n))
Round(total, n) ==
    LET q == total \div n
        r == total % n
    IN  IF 2 * r < n THEN q
        ELSE IF 2 * r > n THEN q + 1
        ELSE IF q % 2 = 0 THEN q ELSE q + 1

\* the electron counts the caller passes: the driver passes the trial's
\* occupations, a caller with an array of its own passes any counts
CallerNup == IF trial = NoTrial THEN 1..2 ELSE {trial.nocc_alpha}

CallerNdown == IF trial = NoTrial THEN 0..1 ELSE {trial.nocc_beta}

\* the nbasis argument: the driver passes the basis size of the trial's
\* orbitals, a caller with an array of its own passes any size
CallerNbasis(M) == IF trial = NoTrial THEN Rows(M)..(Rows(M) + 1) ELSE {Rows(M)}

\* UHFWalkers.__init__ (and the subclass constructors on top of it)
Construct ==
    /\ pc = "construct"
    /\ \E nu \in CallerNup, nd \in CallerNdown, nw \in {NumWalkers} :
       \E shift \in ShiftPolicies(nw), nb \in CallerNbasis(initial_walker.mat) :
        IF initial_walker.ndim # 2
        THEN /\ err' = "AssertionError"
             /\ pc' = "failed"
             /\ UNCHANGED <<shape_vars, orbital_vars, ledger_vars, buffer_vars,
                            sum_log_det, log_det>>
        ELSE LET M == initial_walker.mat
                 a == BaseAttrs(nw) @@ OrbitalAttrs(M, nu, nd, nb, nw)
                 names == RegisterBuffNames(BaseBuffNames)
                 size == Round(set_buff_size_single_walker(a, names), nw)
             IN  /\ Exact(ColsUpTo(M, nu))
                 /\ Exact(ColsFrom(M, nu))
                 /\ nup' = nu /\ ndown' = nd /\ nbasis' = nb /\ nwalkers' = nw
                 /\ phia' = InitPhia(M, nu, nw)
                 /\ phib' = InitPhib(M, nu, nw)
                 /\ ovlp' = [w \in 0..(nw - 1) |-> One]
                 /\ detR' = [w \in 0..(nw - 1) |-> One]
                 /\ log_detR' = [w \in 0..(nw - 1) |-> 0]
                 /\ detR_shift' = shift
                 /\ buff_names' = names
                 /\ buff_size' = size
                 /\ attrs' = a @@ ("walker_buffer" :> size) @@
                             SubclassAttrs(walker_cls, nu, nd, nb, nw, ndets)
                 /\ sum_log_det' = [w \in 0..(nw - 1) |-> 0]
                 /\ log_det' = [w \in 0..(nw - 1) |-> 0]
                 /\ err' = ""
                 /\ pc' = "build"
    /\ UNCHANGED <<use_gpu, input_vars, iw, detR_list, ret, mode, ncalls, nprops>>

\* the arrays build(trial) adds: CIa and CIb for the particle-hole class,
\* nothing for the others
BuildAttrs(cls, t, nw) ==
    IF cls = "UHFWalkersParticleHole"
    THEN ("CIa" :> nw * t.nact * t.nocc_alpha) @@
         ("CIb" :> nw * t.nact * t.nocc_beta)
    ELSE <<>>

\* walkers.build(trial); the driver's trial argument goes out of scope
Build ==
    /\ pc = "build"
    /\ attrs' = attrs @@ BuildAttrs(walker_cls, trial, nwalkers)
    /\ trial' = NoTrial
    /\ pc' = "ready"
    /\ UNCHANGED <<err, use_gpu, walker_cls, ndets, initial_walker, shape_vars,
                   orbital_vars, ledger_vars, buff_names, buff_size, call_vars,
                   nprops>>

\* ---------------------------------------------------------- propagation
\* what one propagation step (external to this module) may do to an orbital
\* matrix: scale a column, flip its sign, or mix the column before it into it
PropagatedFrom(M) ==
    {[M EXCEPT ![k] = ScaleVec(2, M[k])] : k \in 1..Len(M)} \cup
    {[M EXCEPT ![k] = ScaleVec(-1, M[k])] : k \in 1..Len(M)} \cup
    {[M EXCEPT ![k] = AddVec(M[k], M[k - 1])] : k \in 2..Len(M)}

Propagate ==
    /\ pc = "ready"
    /\ nprops < MaxProps
    /\ \E w \in Walkers :
        \/ \E M \in PropagatedFrom(phia[w]) :
            /\ Exact(M)
            /\ phia' = [phia EXCEPT ![w] = M]
            /\ phib' = phib
        \/ \E M \in PropagatedFrom(phib[w]) :
            /\ Exact(M)
            /\ phib' = [phib EXCEPT ![w] = M]
            /\ phia' = phia
    /\ nprops' = nprops + 1
    /\ UNCHANGED <<pc, err, use_gpu, input_vars, shape_vars, ledger_vars,
                   buffer_vars, call_vars>>

\* ------------------------------------------------- reorthonormalisation
\* per-walker mode, one spin channel, given the factors f of its matrix:
\* move the signs of R's diagonal into the orbitals, sum the logs of the
\* diagonal's magnitudes
SignFixed(f) ==
    [phi |-> DotDiag(f.Q, SignVec(f.Rdiag)), log |-> SumLogAbs(f.Rdiag)]

ReorthoChannel(phi) == SignFixed(qr(phi))

\* batched mode, one spin channel of one walker of the stacked array, given
\* the factors f of its matrix: sum the logs of the diagonal's magnitudes
Unfixed(f) == [phi |-> f.Q, log |-> SumLogAbs(f.Rdiag)]

BatchedChannel(phi) == Unfixed(qr(phi))

\* the down channel processed whatever ndown is
DownPresent_always(nd) == nd >= 0

\* if ndown > 0
DownPresent(nd) == nd > 0

\* log_det, from the two channels' results
LogDetOf(up, dn) == IF DownPresent(ndown) THEN up.log + dn.log ELSE up.log

\* xp.exp(log_det - self.detR_shift[iw])
DetRValue(ld, shift) == Exp(ld - shift)

\* self.log_detR[iw] += xp.log(detR[iw])
LogDetRAfter(old, d) == old + Log(d)

\* the overlap multiplied by detR instead of divided by it
OvlpAfter_multiplied(o, d) == Rat(o[1] * d[1], o[2] * d[2])

\* self.ovlp[iw] = self.ovlp[iw] / detR[iw]
OvlpAfter(o, d) == RatDiv(o, d)

\* what reortho's loop body leaves for walker w, given the results up and dn
\* of the two channels and the determinant ratio d
WalkerLedger(w, up, dn, d) ==
    [phia |-> up.phi,
     phib |-> IF DownPresent(ndown) THEN dn.phi ELSE phib[w],
     log_det |-> LogDetOf(up, dn),
     detR |-> d,
     log_detR |-> LogDetRAfter(log_detR[w], d),
     ovlp |-> OvlpAfter(ovlp[w], d)]

WalkerChannels(w, up, dn) ==
    WalkerLedger(w, up, dn, DetRValue(LogDetOf(up, dn), detR_shift[w]))

\* the body of reortho's loop for walker w
WalkerUpdate(w) ==
    WalkerChannels(w, ReorthoChannel(phia[w]), ReorthoChannel(phib[w]))

\* what reortho_batched leaves for walker w
BatchedLedger(w, up, dn, d) ==
    [phia |-> up.phi,
     phib |-> IF DownPresent(ndown) THEN dn.phi ELSE phib[w],
     log_det |-> LogDetOf(up, dn),
     detR |-> d,
     log_detR |-> log_detR[w],
     ovlp |-> OvlpAfter(ovlp[w], d)]

BatchedChannels(w, up, dn) ==
    BatchedLedger(w, up, dn, DetRValue(LogDetOf(up, dn), detR_shift[w]))

BatchedUpdate(w) ==
    BatchedChannels(w, BatchedChannel(phia[w]), BatchedChannel(phib[w]))

\* reortho with use_gpu off: enter the loop
ReorthoBegin ==
    /\ pc = "ready"
    /\ ~use_gpu
    /\ ncalls < MaxCalls
    /\ iw' = 0
    /\ detR_list' = <<>>
    /\ pc' = "loop"
    /\ UNCHANGED <<err, use_gpu, input_vars, shape_vars, orbital_vars,
                   ledger_vars, buffer_vars, log_det, ret, mode, sum_log_det,
                   ncalls, nprops>>

\* the loop body writing the orbitals through to every walker of the batch
StoreWalker_shared(u) ==
    /\ phia' = [w \in Walkers |-> u.phia]
    /\ phib' = [w \in Walkers |-> u.phib]
    /\ log_det' = [log_det EXCEPT ![iw] = u.log_det]
    /\ detR_list' = Append(detR_list, u.detR)
    /\ log_detR' = [log_detR EXCEPT ![iw] = u.log_detR]
    /\ detR' = [detR EXCEPT ![iw] = u.detR]
    /\ ovlp' = [ovlp EXCEPT ![iw] = u.ovlp]
    /\ sum_log_det' = [sum_log_det EXCEPT ![iw] = @ + u.log_det]

\* the loop body's assignments for walker iw
StoreWalker(u) ==
    /\ phia' = [phia EXCEPT ![iw] = u.phia]
    /\ phib' = [phib EXCEPT ![iw] = u.phib]
    /\ log_det' = [log_det EXCEPT ![iw] = u.log_det]
    /\ detR_list' = Append(detR_list, u.detR)
    /\ log_detR' = [log_detR EXCEPT ![iw] = u.log_detR]
    /\ detR' = [detR EXCEPT ![iw] = u.detR]
    /\ ovlp' = [ovlp EXCEPT ![iw] = u.ovlp]
    /\ sum_log_det' = [sum_log_det EXCEPT ![iw] = @ + u.log_det]

\* one iteration of the loop: walker iw
ReorthoStep ==
    /\ pc = "loop"
    /\ iw < nwalkers
    /\ StoreWalker(WalkerUpdate(iw))
    /\ iw' = iw + 1
    /\ UNCHANGED <<pc, err, use_gpu, input_vars, shape_vars, detR_shift,
                   buffer_vars, ret, mode, ncalls, nprops>>

\* the loop is over: synchronize() and return the list detR
ReorthoReturn ==
    /\ pc = "loop"
    /\ iw = nwalkers
    /\ ret' = [w \in Walkers |-> detR_list[w + 1]]
    /\ mode' = "per_walker"
    /\ ncalls' = ncalls + 1
    /\ pc' = "ready"
    /\ UNCHANGED <<err, use_gpu, input_vars, shape_vars, orbital_vars,
                   ledger_vars, buffer_vars, iw, detR_list, log_det,
                   sum_log_det, nprops>>

\* reortho_batched's assignments, whole arrays at once
StoreBatch(u) ==
    /\ phia' = [w \in Walkers |-> u[w].phia]
    /\ phib' = [w \in Walkers |-> u[w].phib]
    /\ log_det' = [w \in Walkers |-> u[w].log_det]
    /\ detR' = [w \in Walkers |-> u[w].detR]
    /\ log_detR' = [w \in Walkers |-> u[w].log_detR]
    /\ ovlp' = [w \in Walkers |-> u[w].ovlp]
    /\ ret' = [w \in Walkers |-> u[w].detR]
    /\ sum_log_det' = [w \in Walkers |-> sum_log_det[w] + u[w].log_det]

\* reortho_batched, reached through reortho with use_gpu on or called
\* directly; with use_gpu off its assert raises AssertionError to the caller
\* before anything is touched
ReorthoBatched ==
    /\ pc = "ready"
    /\ IF use_gpu
       THEN /\ ncalls < MaxCalls
            /\ StoreBatch([w \in Walkers |-> BatchedUpdate(w)])
            /\ ncalls' = ncalls + 1
            /\ UNCHANGED <<pc, err>>
       ELSE /\ err' = "AssertionError"
            /\ pc' = "failed"
            /\ UNCHANGED <<orbital_vars, ledger_vars, log_det, ret,
                           sum_log_det, ncalls>>
    /\ mode' = "batched"
    /\ UNCHANGED <<use_gpu, input_vars, shape_vars, detR_shift,
                   buffer_vars, iw, detR_list, nprops>>

Next ==
    \/ GetInitialWalker
    \/ Dispatch
    \/ DirectArray
    \/ Construct
    \/ Build
    \/ Propagate
    \/ ReorthoBegin
    \/ ReorthoStep
    \/ ReorthoReturn
    \/ ReorthoBatched

Spec == Init /\ [][Next]_vars

\* ------------------------------------------------------------ properties
\* the steps the properties speak about
ConstructStep == pc = "construct" /\ pc' = "build"

WalkerStep == pc = "loop" /\ pc' = "loop" /\ iw' = iw + 1

ReturnStep == pc = "loop" /\ pc' = "ready"

BatchedStep == pc = "ready" /\ pc' = "ready" /\ ncalls' = ncalls + 1

Allocated == pc \in {"build", "ready", "loop"}

NothingAllocated ==
    /\ phia = <<>> /\ phib = <<>>
    /\ ovlp = <<>> /\ detR = <<>> /\ log_detR = <<>> /\ detR_shift = <<>>
    /\ attrs = <<>> /\ buff_names = <<>>
    /\ nwalkers = 0

\* the un-shifted log_det of walker w's current matrices: the up channel's
\* sum of log|R[k,k]|, plus the down channel's when ndown > 0
UpLogDet(w) == SumLogAbs(qr(phia[w]).Rdiag)

DownLogDet(w) == SumLogAbs(qr(phib[w]).Rdiag)

FullLogDet(w) == IF ndown > 0 THEN UpLogDet(w) + DownLogDet(w) ELSE UpLogDet(w)

\* C1: per-walker mode and batched mode are functionally identical: from the
\* same batch state one call leaves the same orbital matrices, the same
\* det_R, log_det_R and overlap for every walker, and returns the same
\* det_R values (the value returned is the det_R stored, in both modes).
C1_ModesEquivalent ==
    pc = "ready" =>
        \A w \in Walkers :
            /\ WalkerUpdate(w).phia = BatchedUpdate(w).phia
            /\ WalkerUpdate(w).phib = BatchedUpdate(w).phib
            /\ WalkerUpdate(w).detR = BatchedUpdate(w).detR
            /\ WalkerUpdate(w).log_detR = BatchedUpdate(w).log_detR
            /\ WalkerUpdate(w).ovlp = BatchedUpdate(w).ovlp

\* C2: log_det_R[i] is cumulative over the walker's history: after any
\* sequence of reorthonormalization calls it equals its value at
\* construction (zero) plus the sum of the un-shifted log_det values computed
\* for walker i in each call.
C2_LogDetRCumulative ==
    pc = "ready" => \A w \in Walkers : log_detR[w] = 0 + sum_log_det[w]

\* C3: in either mode and for every walker independently, one call leaves
\* overlap[i] equal to its value before the call divided by the det_R[i] the
\* call stored, where det_R[i] = exp(log_det_i - det_R_shift[i]); the value
\* returned for walker i is the stored det_R[i].
C3_OverlapDividedByDetR ==
    [][ /\ WalkerStep =>
            /\ detR'[iw] = Exp(FullLogDet(iw) - detR_shift[iw])
            /\ ovlp'[iw] = RatDiv(ovlp[iw], detR'[iw])
            /\ detR_list'[iw + 1] = detR'[iw]
        /\ ReturnStep => \A w \in Walkers : ret'[w] = detR[w]
        /\ BatchedStep =>
            \A w \in Walkers :
                /\ detR'[w] = Exp(FullLogDet(w) - detR_shift[w])
                /\ ovlp'[w] = RatDiv(ovlp[w], detR'[w])
                /\ ret'[w] = detR'[w] ]_vars

\* C3 witness: a call has returned a det_R other than one for some walker,
\* and that walker's overlap is the initial overlap divided by it
C3_Witness ==
    /\ pc = "ready" /\ ncalls = 1
    /\ \E w \in Walkers :
        /\ ret[w] # One
        /\ ret[w] = detR[w]
        /\ ovlp[w] = RatDiv(One, detR[w])

\* C4: with n_down = 0 a call in either mode leaves phi_down unchanged, and
\* the log_det used for each walker's ledger correction is the up channel's
\* sum of log|R[k,k]| alone.
C4_NoDownChannel ==
    [][ ndown = 0 =>
            /\ WalkerStep =>
                /\ phib' = phib
                /\ log_det'[iw] = UpLogDet(iw)
                /\ detR'[iw] = Exp(UpLogDet(iw) - detR_shift[iw])
            /\ BatchedStep =>
                /\ phib' = phib
                /\ \A w \in Walkers :
                    /\ log_det'[w] = UpLogDet(w)
                    /\ detR'[w] = Exp(UpLogDet(w) - detR_shift[w]) ]_vars

\* C4 witness: a batch with n_down = 0 whose phi_down holds a column has been
\* through a call that found a non-zero log_det
C4_Witness ==
    /\ pc = "ready" /\ ncalls >= 1 /\ ndown = 0
    /\ \E w \in Walkers : phib[w] # <<>> /\ log_det[w] > 0

\* a trial that is an instance of none of the classes the module knows
UnknownVariant(t) == t # NoTrial /\ t.mro \cap DOMAIN UHFWalkersTrial = {}

\* C5: a trial whose variant matches none of the known cases
\* makes dispatch fail with the dedicated UnrecognizedVariantError; the
\* error reaches the caller and nothing is allocated.
C5_UnrecognizedVariantError ==
    UnknownVariant(trial) =>
        /\ pc = "failed"
        /\ err = "UnrecognizedVariantError"
        /\ NothingAllocated

\* C6: construction fails with a ShapeError, nothing allocated, whenever the
\* initial matrix is not two-dimensional or n_up + n_down differs from its
\* column count; otherwise it succeeds with n_up columns in phi_up[i] and
\* n_down columns in phi_down[i].
C6_ShapeChecked ==
    /\ Allocated =>
        /\ initial_walker.ndim = 2
        /\ nup + ndown = Len(initial_walker.mat)
        /\ \A w \in Walkers : Len(phia[w]) = nup /\ Len(phib[w]) = ndown
    /\ (pc = "failed" /\ walker_cls # "" /\ mode = "") =>
        /\ err = "ShapeError"
        /\ NothingAllocated

\* C7: construction gives every walker its own copy of the initial matrix,
\* the first n_up columns in phi_up and the remaining ones in phi_down; the
\* loop step for walker i changes nothing of any other walker, nor the
\* initial matrix.
C7_IndependentCopies ==
    [][ /\ ConstructStep =>
            \A w \in 0..(nwalkers' - 1) :
                /\ Len(phia'[w]) = Min(nup', Len(initial_walker.mat))
                /\ Len(phia'[w]) + Len(phib'[w]) = Len(initial_walker.mat)
                /\ \A k \in 1..Len(phia'[w]) :
                    phia'[w][k] = initial_walker.mat[k]
                /\ \A k \in 1..Len(phib'[w]) :
                    phib'[w][k] = initial_walker.mat[Len(phia'[w]) + k]
        /\ WalkerStep =>
            /\ initial_walker' = initial_walker
            /\ \A j \in Walkers \ {iw} :
                /\ phia'[j] = phia[j] /\ phib'[j] = phib[j]
                /\ detR'[j] = detR[j] /\ log_detR'[j] = log_detR[j]
                /\ ovlp'[j] = ovlp[j] /\ detR_shift'[j] = detR_shift[j] ]_vars

\* C7 witness: inside the loop walker 0 has been rewritten and walker 1,
\* not yet processed, still holds its copy of the initial matrix
C7_Witness ==
    /\ pc = "loop" /\ iw = 1 /\ nwalkers >= 2
    /\ phia[0] # phia[1]
    /\ phia[1] = ColsUpTo(initial_walker.mat, nup)
    /\ detR[0] # detR[1]

\* C8: the names registered for serialization hold phia and phib as two
\* entries, every registered name is an attribute of the batch, and
\* buff_size is the summed size of the registered fields, orbital matrices
\* included, divided by the number of walkers.
C8_BufferMatchesLayout ==
    Allocated =>
        /\ {"phia", "phib"} \subseteq Range(buff_names)
        /\ Range(buff_names) \subseteq DOMAIN attrs
        /\ buff_size =
               Round(SumSizes(attrs, Range(BaseBuffNames) \cup {"phia", "phib"}),
                     nwalkers)

\* old = new R with a positive diagonal in R: new is Q diag(sign(R[k,k])) for
\* the decomposition old = Q R
Canonical(old, new) ==
    /\ new = DotDiag(qr(old).Q, SignVec(qr(old).Rdiag))
    /\ \A k \in 1..Len(old) : Dot(new[k], old[k]) > 0

\* C9: in either mode and for each spin channel present, a call leaves
\* phi_s[i] = Q diag(sign_k) for the decomposition of the pre-call matrix, so
\* the triangular factor relating the old matrix to the new one has a
\* positive diagonal.
C9_SignsMovedIntoOrbitals ==
    [][ /\ WalkerStep =>
            /\ Canonical(phia[iw], phia'[iw])
            /\ ndown > 0 => Canonical(phib[iw], phib'[iw])
        /\ BatchedStep =>
            \A w \in Walkers :
                /\ Canonical(phia[w], phia'[w])
                /\ ndown > 0 => Canonical(phib[w], phib'[w]) ]_vars

\* C10: every class the dispatch table maps to a walker class is accepted by
\* get_initial_walker, which raises only for classes the table lacks.  The
\* formula is decided by whether ParticleHoleNaive trials are instances of
\* ParticleHoleWicks, which the trial module settles.
C10_DispatchConsistent ==
    \A t \in Trials :
        (get_initial_walker(t).raised = "") <=> (t.cls \in DOMAIN UHFWalkersTrial)

====
